---------------------------- MODULE Spec2Model ----------------------------
(***************************************************************************)
(* A model of the gov_props Angular application: the Homepage component    *)
(* (autocomplete search over politician names), the ProfilePage component  *)
(* (politician query, proposition list, modal, status classes) and the     *)
(* proposition sentiment scraper described in its README.                   *)
(*                                                                         *)
(* JavaScript strings are sequences of one-character strings.  JavaScript  *)
(* values that may be a string, null or undefined are tagged records       *)
(* [t |-> type, v |-> characters].                                         *)
(***************************************************************************)
EXTENDS Integers, Sequences, FiniteSets

VARIABLES
    url,          \* the router's current URL: [path, name]
    pending,      \* the URL of the navigation the router is working on
    options,      \* Homepage.options (signal): the list of names
    control,      \* Homepage.myControl.value
    topMatch,     \* Homepage.topMatch
    subscribed,   \* whether filteredOptions has a subscriber (the template)
    filtered,     \* the last list filteredOptions emitted
    politicians,  \* the store's Politicians collection: a list of documents
    snapshots,    \* collectionData: snapshots not yet delivered to Homepage
    writes,       \* how many times the collection was written (bounded)
    loads,        \* how many times this Homepage has set its options
    lastOp,       \* the last operation performed: [op, arg, nav]
    validNames,   \* ProfilePage.validNames
    namesQuery,   \* getDocs(col) of allPoliticians$: "none", "pending", "done"
    selectedProp, \* ProfilePage.selectedProp
    bodyOverflow, \* document.body.style.overflow
    queries,      \* getDocs(q) calls of politician$ in flight: [id, name]
    inner,        \* the query switchMap is subscribed to (0: none)
    navs,         \* how many profile routes were activated (bounded)
    stream,       \* politician$: "none", "live", "errored"
    lastEmit,     \* the last value politician$ emitted: [id, param, value]
    emitCount,    \* how many values politician$ has emitted
    warned,       \* whether the last operation logged a console warning
    statusArg,    \* the argument of a call of getStatusClass
    statusClass,  \* what the call returned ("" before it returns)
    sentiment,    \* the store: each proposition's sentiment summary fields
    cursor,       \* the scraper's position: the next proposition, 0 if idle
    runs,         \* how many runs of the scraper have started (bounded)
    scraperOp     \* what the scraper did last: [op, prop]

varsHome == <<url, pending, options, control, topMatch, subscribed, filtered,
              politicians, snapshots, writes, loads, lastOp>>

varsHomeOnly == <<options, control, topMatch, subscribed, filtered,
                  snapshots, writes, loads>>

varsProfileOnly == <<validNames, namesQuery, selectedProp, bodyOverflow,
                     queries, inner, navs, stream, lastEmit, emitCount, warned>>

varsStatus == <<statusArg, statusClass>>

varsScraper == <<sentiment, cursor, runs, scraperOp>>

\* What the operations of each part leave alone.
varsNotHome == <<varsProfileOnly, varsStatus, varsScraper>>
varsNotProfile == <<varsHomeOnly, varsStatus, varsScraper>>
varsNotStatus == <<varsHome, varsProfileOnly, varsScraper>>
varsNotScraper == <<varsHome, varsProfileOnly, varsStatus>>

vars == <<varsHome, varsProfileOnly, varsStatus, varsScraper>>

-----------------------------------------------------------------------------
(* Bounds of the model. *)

\* Longest string typed into the search box.
MaxStrLen == 2
\* Most names in one option list.
MaxOptions == 2
\* Most writes to the Politicians collection in one behaviour.
MaxWrites == 2
\* Most activations of a profile route in one behaviour.
MaxNavs == 3
\* Most entries of one Propositions map.
MaxProps == 3
\* Most pieces of text in one status string.
MaxTokens == 3
\* Most runs of the scraper in one behaviour.
MaxRuns == 3
\* The propositions in the store the scraper works on.
NumProps == 3

-----------------------------------------------------------------------------
(* JavaScript values and strings. *)

JsStr(s)    == [t |-> "string", v |-> s]
JsNull      == [t |-> "null", v |-> <<>>]
JsUndefined == [t |-> "undefined", v |-> <<>>]
\* An object, known by its identity.
JsObj(id)   == [t |-> "object", v |-> <<id>>]

\* JavaScript truthiness of a string, null or undefined.
Truthy(x) == x.t = "string" /\ x.v # <<>>

\* a || b
JsOr(a, b) == IF Truthy(a) THEN a ELSE b

UpperAlpha == <<"A","B","C","D","E","F","G","H","I","J","K","L","M",
                "N","O","P","Q","R","S","T","U","V","W","X","Y","Z">>
LowerAlpha == <<"a","b","c","d","e","f","g","h","i","j","k","l","m",
                "n","o","p","q","r","s","t","u","v","w","x","y","z">>

ToLowerChar(c) ==
    IF \E i \in DOMAIN UpperAlpha : UpperAlpha[i] = c
    THEN LowerAlpha[CHOOSE i \in DOMAIN UpperAlpha : UpperAlpha[i] = c]
    ELSE c

\* String.prototype.toLowerCase
ToLowerCase(s) == [i \in DOMAIN s |-> ToLowerChar(s[i])]

\* String.prototype.indexOf(t, k): the first position >= k at which t
\* occurs in s (0-based), or -1.
RECURSIVE IndexOfFrom(_, _, _)
IndexOfFrom(s, t, k) ==
    IF k + Len(t) > Len(s) THEN -1
    ELSE IF SubSeq(s, k + 1, k + Len(t)) = t THEN k
    ELSE IndexOfFrom(s, t, k + 1)

\* String.prototype.includes
Includes(s, t) == IndexOfFrom(s, t, 0) # -1

\* String.prototype.trim, for the one whitespace character of the model.
RECURSIVE TrimStart(_)
TrimStart(s) == IF s # <<>> /\ Head(s) = " " THEN TrimStart(Tail(s)) ELSE s
RECURSIVE TrimEnd(_)
TrimEnd(s) ==
    IF s # <<>> /\ s[Len(s)] = " " THEN TrimEnd(SubSeq(s, 1, Len(s) - 1)) ELSE s
Trim(s) == TrimEnd(TrimStart(s))

-----------------------------------------------------------------------------
(* The inputs of the model. *)

\* The characters of typed text and of stored names.
Chars == {"A", "a", "b"}

StringsUpTo(n) == UNION {[1..k -> Chars] : k \in 0..n}

\* What the user can type into the search box.
InputStrings == StringsUpTo(MaxStrLen)

\* What the Name field of a stored document holds in the model: names that
\* differ in case only, a name inside another one, the empty string, and a
\* document without the field.
NameStrings == {<<"A", "b">>, <<"a", "b">>, <<"b">>, <<"b", "A">>, <<"A">>, <<>>}
NameValues == {JsStr(s) : s \in NameStrings} \cup {JsUndefined}

SeqsUpTo(S, n) == UNION {[1..k -> S] : k \in 0..n}

OptionLists == SeqsUpTo(NameValues, MaxOptions)

\* What myControl.value can hold.
ControlValues == {JsStr(s) : s \in InputStrings} \cup {JsNull}

-----------------------------------------------------------------------------
(* Homepage (src/unnamed/part_001, lines 79-127). *)

HomeUrl == [path |-> "", name |-> <<>>]
ProfileUrl(name) == [path |-> "profile", name |-> name]

\* No navigation: the router is idle, or router.navigate was not called.
NoNav == [path |-> "none", name |-> <<>>]

\* An operation, its argument, and the URL it passed to router.navigate.
OpNav(o, a, n) == [op |-> o, arg |-> a, nav |-> n]
\* An operation that did not call router.navigate.
Op(o, a) == OpNav(o, a, NoNav)
NoOp == Op("none", JsNull)

\* router.navigate(commands) returns a promise: the call only starts the
\* navigation to target, in place of the one the router was working on.
\* The URL changes, and components are destroyed and created, when the
\* navigation ends, in a later turn of the event loop.
Navigate(target) == pending' = target

\* A document of the collection, as far as Homepage reads it.
NameDoc(name) == [Name |-> name]

\* items.map(i => i.Name)
NamesOf(items) == [k \in DOMAIN items |-> items[k].Name]

\* _filter comparing the option's text as stored.
FilterCaseSensitive(opts, value) ==
    LET filterValue == ToLowerCase(value)
    IN  SelectSeq(opts, LAMBDA option :
            Truthy(option) /\ Includes(option.v, filterValue))

\* Homepage._filter(value), over this.options() = opts.
Filter(opts, value) ==
    LET filterValue == ToLowerCase(value)
    IN  SelectSeq(opts, LAMBDA option :
            Truthy(option) /\ Includes(ToLowerCase(option.v), filterValue))

\* filtered.length > 0 ? filtered[0] : null
TopOf(f) == IF Len(f) > 0 THEN f[1] ELSE JsNull

\* The map callback of filteredOptions: one value of valueChanges (or the
\* '' of startWith) goes through _filter, and the first result is stored.
\* opts is the value of the options signal when the callback runs.
EmitFiltered(opts, value) ==
    LET f == Filter(opts, JsOr(value, JsStr(<<>>)).v)
    IN  /\ filtered' = f
        /\ topMatch' = TopOf(f)

\* FormControl.setValue(v): the value is stored and valueChanges emits it,
\* synchronously, to the subscriber if there is one.
SetValue(opts, v) ==
    /\ control' = v
    /\ IF subscribed THEN EmitFiltered(opts, v)
                     ELSE UNCHANGED <<filtered, topMatch>>

\* The template subscribes to filteredOptions: startWith('') emits ''.
SubscribeFiltered ==
    /\ url = HomeUrl
    /\ ~subscribed
    /\ subscribed' = TRUE
    /\ EmitFiltered(options, JsStr(<<>>))
    /\ lastOp' = Op("subscribe", JsNull)
    /\ UNCHANGED <<url, pending, options, control, politicians, snapshots, writes, loads>>
    /\ UNCHANGED varsNotHome

\* The user's input reaches the control: valueChanges emits it.
ValueChange(v) ==
    /\ url = HomeUrl
    /\ subscribed
    /\ SetValue(options, v)
    /\ lastOp' = Op("input", v)
    /\ UNCHANGED <<url, pending, options, subscribed, politicians, snapshots, writes, loads>>
    /\ UNCHANGED varsNotHome

\* The user picks option x of the autocomplete panel, which shows the last
\* emitted list: the control takes the option's value.
SelectOption(x) ==
    /\ url = HomeUrl
    /\ subscribed
    /\ \E i \in DOMAIN filtered : filtered[i] = x
    /\ SetValue(options, x)
    /\ lastOp' = Op("select", x)
    /\ UNCHANGED <<url, pending, options, subscribed, politicians, snapshots, writes, loads>>
    /\ UNCHANGED varsNotHome

\* The subscriber of collectionData without line 104: the options are
\* set and valueChanges does not emit.
DeliverSnapshotNoSetValue ==
    /\ url = HomeUrl
    /\ snapshots # <<>>
    /\ options' = NamesOf(Head(snapshots))
    /\ snapshots' = Tail(snapshots)
    /\ loads' = loads + 1
    /\ lastOp' = Op("snapshot", JsNull)
    /\ UNCHANGED <<url, pending, control, filtered, topMatch, subscribed, politicians, writes>>
    /\ UNCHANGED varsNotHome

\* The subscriber of collectionData in the constructor, lines 102-105, for
\* one snapshot of the collection.
DeliverSnapshot ==
    /\ url = HomeUrl
    /\ snapshots # <<>>
    /\ LET names == NamesOf(Head(snapshots))
       IN  /\ options' = names
           /\ SetValue(names, control)
    /\ snapshots' = Tail(snapshots)
    /\ loads' = loads + 1
    /\ lastOp' = Op("snapshot", JsNull)
    /\ UNCHANGED <<url, pending, subscribed, politicians, writes>>
    /\ UNCHANGED varsNotHome

\* Homepage.goToPage(inputValue), lines 86-92: at most a call of
\* router.navigate.  The component lives on until the navigation ends.
GoToPage(inputValue) ==
    /\ url = HomeUrl
    /\ LET destinationName == JsOr(topMatch, inputValue)
       IN  IF Truthy(destinationName) /\ Trim(destinationName.v) # <<>>
           THEN /\ Navigate(ProfileUrl(destinationName.v))
                /\ lastOp' = OpNav("goToPage", inputValue,
                                   ProfileUrl(destinationName.v))
           ELSE /\ UNCHANGED pending
                /\ lastOp' = Op("goToPage", inputValue)
    /\ UNCHANGED <<url, options, control, topMatch, subscribed, filtered,
                   politicians, snapshots, writes, loads>>
    /\ UNCHANGED varsNotHome

\* The navigation Homepage started ends: the router is at the profile
\* route and the component is destroyed, which ends the collectionData
\* subscription (takeUntilDestroyed) and the template's subscription.
LeaveHome ==
    /\ url = HomeUrl
    /\ pending # NoNav
    /\ url' = pending
    /\ pending' = NoNav
    /\ snapshots' = <<>>
    /\ subscribed' = FALSE
    /\ lastOp' = Op("navigated", JsNull)
    /\ UNCHANGED <<options, control, topMatch, filtered, politicians, writes, loads>>
    /\ UNCHANGED varsNotHome

\* A navigation to the route '' ends: a new Homepage is constructed (field
\* initialisers, lines 80-84, and the constructor, which subscribes to
\* collectionData: the store will deliver the collection's current state).
OpenHome ==
    /\ url # HomeUrl
    /\ url' = HomeUrl
    /\ pending' = NoNav
    /\ options' = <<>>
    /\ control' = JsStr(<<>>)
    /\ topMatch' = JsNull
    /\ subscribed' = FALSE
    /\ filtered' = <<>>
    /\ snapshots' = <<politicians>>
    /\ loads' = 0
    /\ lastOp' = Op("open", JsNull)
    /\ UNCHANGED <<politicians, writes>>
    /\ UNCHANGED varsNotHome

\* Another client writes the collection; a live query gets a new snapshot.
StoreWrite(items) ==
    /\ writes < MaxWrites
    /\ items # politicians
    /\ politicians' = items
    /\ writes' = writes + 1
    /\ snapshots' = IF url = HomeUrl THEN Append(snapshots, items) ELSE snapshots
    /\ lastOp' = Op("write", JsNull)
    /\ UNCHANGED <<url, pending, options, control, topMatch, subscribed, filtered, loads>>
    /\ UNCHANGED varsNotHome

-----------------------------------------------------------------------------
(* ProfilePage (src/src/app/main/profile-page/profile-page.ts, lines       *)
(* 103-206).                                                               *)

NoEmit == [id |-> 0, param |-> <<>>, value |-> JsNull]

\* No ProfilePage exists and none has existed.
ProfileIdle ==
    /\ validNames = <<>>
    /\ namesQuery = "none"
    /\ selectedProp = JsNull
    /\ bodyOverflow = ""
    /\ queries = {}
    /\ inner = 0
    /\ navs = 0
    /\ stream = "none"
    /\ lastEmit = NoEmit
    /\ emitCount = 0
    /\ warned = FALSE

\* Array.prototype.includes
SeqIncludes(seq, x) == \E i \in DOMAIN seq : seq[i] = x

\* A field of a document, or undefined.
Field(data, f) == IF f \in DOMAIN data THEN data[f] ELSE JsUndefined

\* The documents query(col, where('Name', '==', name)) finds, in the
\* order of the collection.
QueryByName(name) ==
    SelectSeq(politicians, LAMBDA d : Field(d, "Name") = JsStr(name))

\* Number(key) for a key made of decimal digits.
DigitValue(c) ==
    CASE c = "0" -> 0 [] c = "1" -> 1 [] c = "2" -> 2 [] c = "3" -> 3
      [] c = "4" -> 4 [] c = "5" -> 5 [] c = "6" -> 6 [] c = "7" -> 7
      [] c = "8" -> 8 [] c = "9" -> 9
RECURSIVE NumberOf(_)
NumberOf(key) ==
    IF key = <<>> THEN 0
    ELSE 10 * NumberOf(SubSeq(key, 1, Len(key) - 1)) + DigitValue(key[Len(key)])

\* Whether a property key is an array index ("0", "7", "10", not "07"):
\* Object.entries lists these first, in ascending numeric order, and the
\* other keys after them in the order they were added.
IsArrayIndex(key) == key = <<"0">> \/ (key # <<>> /\ Head(key) # "0")

\* ([a], [b]) => Number(a) - Number(b) is negative.
NumericLess(a, b) == NumberOf(a.key) < NumberOf(b.key)

\* seq, sorted, with entry e inserted after the last entry that is not
\* greater than e.
RECURSIVE InsertByNumber(_, _)
InsertByNumber(seq, e) ==
    IF seq = <<>> THEN <<e>>
    ELSE IF NumericLess(e, seq[Len(seq)])
         THEN Append(InsertByNumber(SubSeq(seq, 1, Len(seq) - 1), e), seq[Len(seq)])
         ELSE Append(seq, e)

\* A stable sort of seq by Number(key) (Array.prototype.sort is stable).
RECURSIVE SortByNumber(_)
SortByNumber(seq) ==
    IF seq = <<>> THEN <<>>
    ELSE InsertByNumber(SortByNumber(SubSeq(seq, 1, Len(seq) - 1)), seq[Len(seq)])

\* Object.entries(propsMap): propsMap is the list of its [key, value]
\* entries in the order they were added.
ObjectEntries(propsMap) ==
    SortByNumber(SelectSeq(propsMap, LAMBDA e : IsArrayIndex(e.key)))
        \o SelectSeq(propsMap, LAMBDA e : ~IsArrayIndex(e.key))

\* propsList without the sort: the values in the order of Object.entries.
PropsListUnsorted(data) ==
    LET propsMap == IF "Propositions" \in DOMAIN data THEN data["Propositions"] ELSE <<>>
        entries  == ObjectEntries(propsMap)
    IN  [i \in DOMAIN entries |-> entries[i].value]

\* Lines 156-159: the values of data['Propositions'] || {}, sorted by
\* Number(key).
PropsList(data) ==
    LET propsMap == IF "Propositions" \in DOMAIN data THEN data["Propositions"] ELSE <<>>
        sorted   == SortByNumber(ObjectEntries(propsMap))
    IN  [i \in DOMAIN sorted |-> sorted[i].value]

\* Line 161: { ...data, propsList }
WithPropsList(data) ==
    [f \in DOMAIN data \cup {"propsList"} |->
        IF f = "propsList" THEN PropsList(data) ELSE data[f]]

\* EmittedFor taking the last document of the snapshot.
EmittedForLast(docs) ==
    IF Len(docs) = 0 THEN JsNull ELSE WithPropsList(docs[Len(docs)])

\* Lines 151-162: what politician$ emits for the snapshot docs.
EmittedFor(docs) == IF Len(docs) = 0 THEN JsNull ELSE WithPropsList(docs[1])

\* toPage(person) without lines 124-127: no check against validNames.
ToPageUnchecked(person) ==
    /\ url.path = "profile"
    /\ warned' = FALSE
    /\ Navigate(ProfileUrl(person))
    /\ lastOp' = OpNav("toPage", JsStr(person), ProfileUrl(person))
    /\ UNCHANGED <<url, politicians, validNames, namesQuery, selectedProp,
                   bodyOverflow, queries, inner, navs, stream, lastEmit,
                   emitCount>>
    /\ UNCHANGED varsNotProfile

\* A navigation from another page to a profile route ends: a ProfilePage is
\* constructed, ngOnInit starts the query for the names (lines 135-143)
\* and the template subscribes to politician$, whose switchMap starts the
\* query for the route's name (lines 146-152).
OpenProfile(name) ==
    /\ url.path # "profile"
    /\ navs < MaxNavs
    /\ url' = ProfileUrl(name)
    /\ pending' = NoNav
    /\ validNames' = <<>>
    /\ namesQuery' = "pending"
    /\ selectedProp' = JsNull
    /\ navs' = navs + 1
    /\ inner' = navs + 1
    /\ queries' = {[id |-> navs + 1, name |-> name]}
    /\ stream' = "live"
    /\ lastEmit' = NoEmit
    /\ emitCount' = 0
    /\ warned' = FALSE
    /\ lastOp' = Op("open", JsStr(name))
    /\ UNCHANGED <<politicians, bodyOverflow>>
    /\ UNCHANGED varsNotProfile

\* getDocs(col) resolves: lines 135-137.  tap (line 137) is above
\* shareReplay(1), which keeps its subscription to the source when
\* takeUntilDestroyed (line 139) unsubscribes, so the names are assigned
\* also when the component has been destroyed by then.
NamesLoaded ==
    /\ namesQuery = "pending"
    /\ namesQuery' = "done"
    /\ validNames' = [k \in DOMAIN politicians |-> Field(politicians[k], "Name")]
    /\ warned' = FALSE
    /\ lastOp' = Op("names", JsNull)
    /\ UNCHANGED <<url, pending, politicians, selectedProp, bodyOverflow, queries, inner,
                   navs, stream, lastEmit, emitCount>>
    /\ UNCHANGED varsNotProfile

\* ProfilePage.toPage(person), lines 123-129: a warning, or a call of
\* router.navigate.
ToPage(person) ==
    /\ url.path = "profile"
    /\ IF ~SeqIncludes(validNames, JsStr(person))
       THEN /\ warned' = TRUE
            /\ UNCHANGED pending
            /\ lastOp' = Op("toPage", JsStr(person))
       ELSE /\ warned' = FALSE
            /\ Navigate(ProfileUrl(person))
            /\ lastOp' = OpNav("toPage", JsStr(person), ProfileUrl(person))
    /\ UNCHANGED <<url, politicians, validNames, namesQuery, selectedProp,
                   bodyOverflow, queries, inner, navs, stream, lastEmit,
                   emitCount>>
    /\ UNCHANGED varsNotProfile

\* ProfilePage.goBack, lines 119-121: a call of router.navigate.
GoBack ==
    /\ url.path = "profile"
    /\ Navigate(HomeUrl)
    /\ warned' = FALSE
    /\ lastOp' = OpNav("goBack", JsNull, HomeUrl)
    /\ UNCHANGED <<url, politicians, validNames, namesQuery, selectedProp,
                   bodyOverflow, queries, inner, navs, stream, lastEmit,
                   emitCount>>
    /\ UNCHANGED varsNotProfile

\* The navigation ProfilePage started ends.  A navigation to the URL the
\* router is at is ignored.  At another name of the profile route the
\* component is re-used and the route's params emit: switchMap (line 147)
\* drops the query it was subscribed to and starts one for the new name.
\* At the route '' the component is destroyed: the template's subscription
\* to politician$ ends and the results of its queries are dropped; the
\* query for the names stays (see NamesLoaded).
NavigationEnd ==
    /\ url.path = "profile"
    /\ pending # NoNav
    /\ (pending.path = "profile" /\ pending # url) => navs < MaxNavs
    /\ url' = pending
    /\ pending' = NoNav
    /\ IF pending = url
       THEN UNCHANGED <<navs, inner, queries, stream>>
       ELSE IF pending.path = "profile"
       THEN /\ navs' = navs + 1
            /\ IF stream = "live"
               THEN /\ inner' = navs + 1
                    /\ queries' = queries \cup {[id |-> navs + 1, name |-> pending.name]}
               ELSE UNCHANGED <<inner, queries>>
            /\ UNCHANGED stream
       ELSE /\ queries' = {}
            /\ inner' = 0
            /\ stream' = "none"
            /\ UNCHANGED navs
    /\ warned' = FALSE
    /\ lastOp' = Op("navigated", JsNull)
    /\ UNCHANGED <<politicians, validNames, namesQuery, selectedProp,
                   bodyOverflow, lastEmit, emitCount>>
    /\ UNCHANGED varsNotProfile

\* ProfilePage.openModal(prop), lines 166-169.
OpenModal(prop) ==
    /\ url.path = "profile"
    /\ selectedProp' = prop
    /\ bodyOverflow' = "hidden"
    /\ warned' = FALSE
    /\ lastOp' = Op("openModal", JsNull)
    /\ UNCHANGED <<url, pending, politicians, validNames, namesQuery, queries, inner,
                   navs, stream, lastEmit, emitCount>>
    /\ UNCHANGED varsNotProfile

\* ProfilePage.closeModal, lines 172-175.
CloseModal ==
    /\ url.path = "profile"
    /\ selectedProp' = JsNull
    /\ bodyOverflow' = "auto"
    /\ warned' = FALSE
    /\ lastOp' = Op("closeModal", JsNull)
    /\ UNCHANGED <<url, pending, politicians, validNames, namesQuery, queries, inner,
                   navs, stream, lastEmit, emitCount>>
    /\ UNCHANGED varsNotProfile

\* politician$ with mergeMap in place of switchMap: every query that
\* resolves is emitted.
QueryResolvedMerge(q) ==
    /\ q \in queries
    /\ queries' = queries \ {q}
    /\ IF stream = "live"
       THEN /\ lastEmit' = [id |-> q.id, param |-> q.name,
                            value |-> EmittedFor(QueryByName(q.name))]
            /\ emitCount' = emitCount + 1
       ELSE UNCHANGED <<lastEmit, emitCount>>
    /\ warned' = FALSE
    /\ lastOp' = Op("resolved", JsStr(q.name))
    /\ UNCHANGED <<url, pending, politicians, validNames, namesQuery, selectedProp,
                   bodyOverflow, inner, navs, stream>>
    /\ UNCHANGED varsNotProfile

\* getDocs(q) resolves, lines 150-162.  switchMap passes the result on only
\* if q is the query it is subscribed to; the result of a query it has
\* dropped is discarded.
QueryResolved(q) ==
    /\ q \in queries
    /\ queries' = queries \ {q}
    /\ IF stream = "live" /\ q.id = inner
       THEN /\ lastEmit' = [id |-> q.id, param |-> q.name,
                            value |-> EmittedFor(QueryByName(q.name))]
            /\ emitCount' = emitCount + 1
       ELSE UNCHANGED <<lastEmit, emitCount>>
    /\ warned' = FALSE
    /\ lastOp' = Op("resolved", JsStr(q.name))
    /\ UNCHANGED <<url, pending, politicians, validNames, namesQuery, selectedProp,
                   bodyOverflow, inner, navs, stream>>
    /\ UNCHANGED varsNotProfile

\* getDocs(q) rejects.  The error of the query switchMap is subscribed to
\* ends politician$; the error of a dropped query is discarded.
QueryRejected(q) ==
    /\ q \in queries
    /\ queries' = queries \ {q}
    /\ stream' = IF stream = "live" /\ q.id = inner THEN "errored" ELSE stream
    /\ warned' = FALSE
    /\ lastOp' = Op("rejected", JsStr(q.name))
    /\ UNCHANGED <<url, pending, politicians, validNames, namesQuery, selectedProp,
                   bodyOverflow, inner, navs, lastEmit, emitCount>>
    /\ UNCHANGED varsNotProfile

-----------------------------------------------------------------------------
(* ProfilePage.getStatusClass (profile-page.ts, lines 178-190). *)

StatusIdle ==
    /\ statusArg = JsUndefined
    /\ statusClass = ""

Success     == <<"s","u","c","c","e","s","s">>
Compromised == <<"c","o","m","p","r","o","m","i","s","e","d">>
Failed      == <<"f","a","i","l","e","d">>

\* getStatusClass testing 'failed' before 'success'.
GetStatusClassFailedFirst(status) ==
    LET s == IF status.t = "string" THEN ToLowerCase(status.v) ELSE <<>>
    IN  IF Includes(s, Failed) THEN "status-failed"
        ELSE IF Includes(s, Success) THEN "status-success"
        ELSE IF Includes(s, Compromised) THEN "status-compromised"
        ELSE "status-default"

\* getStatusClass(status); s is status?.toLowerCase() || ''.
GetStatusClass(status) ==
    LET s == IF status.t = "string" THEN ToLowerCase(status.v) ELSE <<>>
    IN  IF Includes(s, Success) THEN "status-success"
        ELSE IF Includes(s, Compromised) THEN "status-compromised"
        ELSE IF Includes(s, Failed) THEN "status-failed"
        ELSE "status-default"

\* The template calls getStatusClass(statusArg).
CallGetStatusClass ==
    /\ statusClass = ""
    /\ statusClass' = GetStatusClass(statusArg)
    /\ UNCHANGED statusArg
    /\ UNCHANGED varsNotStatus

-----------------------------------------------------------------------------
(* The proposition sentiment scraper, as its README (src/unnamed/part_002) *)
(* describes it: the script itself is not among the sources.               *)

NoSentiment == <<>>
Sentiment(s, p) ==
    [sentiment_sentence_summary |-> s, sentiment_paragraph_summary |-> p]

\* "Propositions that already have sentiment data".
HasSentiment(prop) ==
    /\ "sentiment_sentence_summary" \in DOMAIN prop
    /\ "sentiment_paragraph_summary" \in DOMAIN prop

ScraperIdle ==
    /\ sentiment = [p \in 1..NumProps |-> NoSentiment]
    /\ cursor = 0
    /\ runs = 0
    /\ scraperOp = [op |-> "none", prop |-> 0]

\* python proposition_sentiment_scraper.py
StartRun ==
    /\ cursor = 0
    /\ runs < MaxRuns
    /\ runs' = runs + 1
    /\ cursor' = 1
    /\ scraperOp' = [op |-> "start", prop |-> 0]
    /\ UNCHANGED sentiment
    /\ UNCHANGED varsNotScraper

\* The scraper's step if it did not skip what has sentiment data.
ProcessPropositionAlways(text) ==
    /\ cursor \in 1..NumProps
    /\ sentiment' = [sentiment EXCEPT ![cursor] = Sentiment(text.s, text.p)]
    /\ scraperOp' = [op |-> "write", prop |-> cursor]
    /\ cursor' = IF cursor = NumProps THEN 0 ELSE cursor + 1
    /\ UNCHANGED runs
    /\ UNCHANGED varsNotScraper

\* One proposition of the run: skipped if it has sentiment data, otherwise
\* the two summaries made for it (or the message that there was too little
\* data) are stored.
ProcessProposition(text) ==
    /\ cursor \in 1..NumProps
    /\ IF HasSentiment(sentiment[cursor])
       THEN /\ UNCHANGED sentiment
            /\ scraperOp' = [op |-> "skip", prop |-> cursor]
       ELSE /\ sentiment' = [sentiment EXCEPT ![cursor] = Sentiment(text.s, text.p)]
            /\ scraperOp' = [op |-> "write", prop |-> cursor]
    /\ cursor' = IF cursor = NumProps THEN 0 ELSE cursor + 1
    /\ UNCHANGED runs
    /\ UNCHANGED varsNotScraper

\* A proposition whose scraping or summarising failed: logged, nothing
\* stored, the run goes on.
FailProposition ==
    /\ cursor \in 1..NumProps
    /\ ~HasSentiment(sentiment[cursor])
    /\ scraperOp' = [op |-> "error", prop |-> cursor]
    /\ cursor' = IF cursor = NumProps THEN 0 ELSE cursor + 1
    /\ UNCHANGED <<sentiment, runs>>
    /\ UNCHANGED varsNotScraper

-----------------------------------------------------------------------------
(* SpecFilter: _filter applied to every option list and every input.  The  *)
(* initial states are those of a subscribed Homepage whose options were    *)
(* loaded and whose search box is still empty.                             *)

InitFilter ==
    /\ url = HomeUrl
    /\ pending = NoNav
    /\ options \in OptionLists
    /\ control = JsStr(<<>>)
    /\ filtered = Filter(options, <<>>)
    /\ topMatch = TopOf(filtered)
    /\ subscribed = TRUE
    /\ politicians = [k \in DOMAIN options |-> NameDoc(options[k])]
    /\ snapshots = <<>>
    /\ writes = 0
    /\ loads = 1
    /\ lastOp = Op("snapshot", JsNull)
    /\ ProfileIdle
    /\ StatusIdle
    /\ ScraperIdle

NextFilter == \E v \in ControlValues : ValueChange(v)

SpecFilter == InitFilter /\ [][NextFilter]_vars

-----------------------------------------------------------------------------
(* SpecHome: the life of the Homepage component. *)

\* The collections of the model.
HomeCollections ==
    { <<>>,
      <<NameDoc(JsStr(<<"A", "b">>)), NameDoc(JsStr(<<"A">>))>>,
      <<NameDoc(JsStr(<<"A">>)), NameDoc(JsStr(<<"A", "b">>))>>,
      <<NameDoc(JsUndefined), NameDoc(JsStr(<<"b">>)), NameDoc(JsStr(<<>>))>> }

\* What the user types in the model.
HomeInputs == {JsStr(<<>>), JsStr(<<"a">>), JsStr(<<"b">>), JsStr(<<" ">>), JsNull}

HomeNames == {NamesOf(c)[k] : <<c, k>> \in {<<c, k>> \in HomeCollections \X (1..3) : k <= Len(c)}}

InitHome ==
    /\ url = HomeUrl
    /\ pending = NoNav
    /\ options = <<>>
    /\ control = JsStr(<<>>)
    /\ topMatch = JsNull
    /\ subscribed = FALSE
    /\ filtered = <<>>
    /\ politicians \in HomeCollections
    /\ snapshots = <<politicians>>
    /\ writes = 0
    /\ loads = 0
    /\ lastOp = Op("open", JsNull)
    /\ ProfileIdle
    /\ StatusIdle
    /\ ScraperIdle

NextHome ==
    \/ SubscribeFiltered
    \/ \E v \in HomeInputs : ValueChange(v)
    \/ \E x \in HomeNames : SelectOption(x)
    \/ DeliverSnapshot
    \/ \E v \in HomeInputs \cup HomeNames : GoToPage(v)
    \/ LeaveHome
    \/ OpenHome
    \/ \E items \in HomeCollections : StoreWrite(items)

SpecHome == InitHome /\ [][NextHome]_vars

-----------------------------------------------------------------------------
(* SpecProfile: the life of the ProfilePage component. *)

\* No Homepage is modelled.
HomeIdle ==
    /\ options = <<>>
    /\ control = JsStr(<<>>)
    /\ topMatch = JsNull
    /\ subscribed = FALSE
    /\ filtered = <<>>
    /\ snapshots = <<>>
    /\ writes = 0
    /\ loads = 0

Entry(k, v) == [key |-> k, value |-> v]

\* The collections of the model: two documents of the same name, a
\* document without Propositions, a document without a Name.
ProfileCollections ==
    { <<>>,
      << [Name |-> JsStr(<<"A">>),
          Propositions |-> <<Entry(<<"1", "0">>, JsObj("p10")), Entry(<<"9">>, JsObj("p9"))>>],
         [Name |-> JsStr(<<"b">>)],
         [Name |-> JsStr(<<"A">>), Propositions |-> <<Entry(<<"1">>, JsObj("p1"))>>] >>,
      << [Propositions |-> <<>>], [Name |-> JsStr(<<"b">>), Propositions |-> <<>>] >> }

\* The names of the model's routes and of toPage's argument.
ProfileNames == {<<"A">>, <<"b">>, <<"a">>}

\* The propositions the template passes to openModal.
ModalProps == {JsObj("p1"), JsObj("p9")}

InitProfile ==
    /\ url = HomeUrl
    /\ pending = NoNav
    /\ politicians \in ProfileCollections
    /\ lastOp = NoOp
    /\ HomeIdle
    /\ ProfileIdle
    /\ StatusIdle
    /\ ScraperIdle

NextProfile ==
    \/ \E name \in ProfileNames : OpenProfile(name)
    \/ NamesLoaded
    \/ \E person \in ProfileNames : ToPage(person)
    \/ GoBack
    \/ NavigationEnd
    \/ \E prop \in ModalProps : OpenModal(prop)
    \/ CloseModal
    \/ \E q \in queries : QueryResolved(q)
    \/ \E q \in queries : QueryRejected(q)

SpecProfile == InitProfile /\ [][NextProfile]_vars

-----------------------------------------------------------------------------
(* SpecProps: politician$ for every document of a bounded shape.  The      *)
(* initial states are those of a ProfilePage just opened on the route of   *)
(* the collection's one document.                                          *)

\* The keys of the model's Propositions maps: "9" before "10" in number
\* and after it as text, and two keys of the same number.
PropKeys == {<<"9">>, <<"1", "0">>, <<"1">>, <<"0", "1">>, <<"2">>}

PropValues == {JsObj("p1"), JsObj("p2")}

\* The maps of at most MaxProps entries, no key twice, in every order of
\* insertion.
PropMaps ==
    {m \in SeqsUpTo({Entry(k, v) : k \in PropKeys, v \in PropValues}, MaxProps) :
        \A i, j \in DOMAIN m : i # j => m[i].key # m[j].key}

PropDocs ==
    LET name == JsStr(<<"A">>) IN
    {[Name |-> name], [Name |-> name, Party |-> JsStr(<<"b">>)]}
    \cup {[Name |-> name, Propositions |-> m] : m \in PropMaps}
    \cup {[Name |-> name, Party |-> JsStr(<<"b">>), Propositions |-> m] : m \in PropMaps}

InitProps ==
    /\ \E doc \in PropDocs : politicians = <<doc>>
    /\ url = ProfileUrl(<<"A">>)
    /\ pending = NoNav
    /\ lastOp = Op("open", JsStr(<<"A">>))
    /\ HomeIdle
    /\ validNames = <<>>
    /\ namesQuery = "pending"
    /\ selectedProp = JsNull
    /\ bodyOverflow = ""
    /\ queries = {[id |-> 1, name |-> <<"A">>]}
    /\ inner = 1
    /\ navs = 1
    /\ stream = "live"
    /\ lastEmit = NoEmit
    /\ emitCount = 0
    /\ warned = FALSE
    /\ StatusIdle
    /\ ScraperIdle

NextProps ==
    \/ \E q \in queries : QueryResolved(q)
    \/ NamesLoaded

SpecProps == InitProps /\ [][NextProps]_vars

-----------------------------------------------------------------------------
(* SpecStatus: getStatusClass applied to every status of a bounded shape.  *)

\* The pieces status strings are made of.
StatusTokens ==
    { <<"S","u","c","c","e","s","s">>, <<"s","u","c">>, <<"c","e","s","s">>,
      <<"C","O","M","P","R","O","M","I","S","E","D">>,
      <<"f","a","i","l","e","d">>, <<"F","a","i","l">>, <<"e","d">>,
      <<" ">>, <<"x">> }

RECURSIVE Flatten(_)
Flatten(ts) == IF ts = <<>> THEN <<>> ELSE Head(ts) \o Flatten(Tail(ts))

StatusInputs ==
    {JsNull, JsUndefined}
    \cup {JsStr(Flatten(ts)) : ts \in SeqsUpTo(StatusTokens, MaxTokens)}

InitStatus ==
    /\ statusArg \in StatusInputs
    /\ statusClass = ""
    /\ url = HomeUrl
    /\ pending = NoNav
    /\ politicians = <<>>
    /\ lastOp = NoOp
    /\ HomeIdle
    /\ ProfileIdle
    /\ ScraperIdle

NextStatus == CallGetStatusClass

SpecStatus == InitStatus /\ [][NextStatus]_vars

-----------------------------------------------------------------------------
(* SpecScraper: runs of the scraper over a store of NumProps propositions. *)

\* What a run can store for a proposition: summaries, or the message
\* that too little was found.
SummaryTexts ==
    { [s |-> "sentence 1", p |-> "paragraph 1"],
      [s |-> "sentence 2", p |-> "paragraph 2"],
      [s |-> "insufficient data", p |-> "insufficient data"] }

InitScraper ==
    /\ ScraperIdle
    /\ url = HomeUrl
    /\ pending = NoNav
    /\ politicians = <<>>
    /\ lastOp = NoOp
    /\ HomeIdle
    /\ ProfileIdle
    /\ StatusIdle

NextScraper ==
    \/ StartRun
    \/ \E text \in SummaryTexts : ProcessProposition(text)
    \/ FailProposition

SpecScraper == InitScraper /\ [][NextScraper]_vars

-----------------------------------------------------------------------------
(* Claims about the scraper and about getStatusClass. *)

\* C2: a step of the scraper never changes the summaries of a proposition
\* that has them: they keep the values first written, whatever the number
\* of runs, and a run over a store where every proposition has them
\* changes nothing.
C2_SummariesNotOverwritten ==
    [][\A p \in 1..NumProps :
          HasSentiment(sentiment[p]) => sentiment'[p] = sentiment[p]]_vars

\* C2's case: a later run reached a proposition an earlier run had
\* enriched, and skipped it.
C2_Witness ==
    /\ runs >= 2
    /\ scraperOp.op = "skip"
    /\ \A p \in 1..NumProps : HasSentiment(sentiment[p])

\* text holds word from offset k on, letter case aside.
HoldsAt(text, word, k) ==
    \A i \in 1..Len(word) : ToLowerChar(text[k + i]) = word[i]

\* The status is a string that contains word, letter case aside.
Mentions(status, word) ==
    /\ status.t = "string"
    /\ \E k \in 0..(Len(status.v) - Len(word)) : HoldsAt(status.v, word, k)

\* C6: the class is 'status-success' if the status mentions success,
\* else 'status-compromised' if it mentions compromised, else
\* 'status-failed' if it mentions failed, else 'status-default'; so a
\* null, undefined or empty status gets 'status-default'.
C6_StatusClassPrecedence ==
    statusClass # "" =>
        /\ statusClass \in {"status-success", "status-compromised",
                            "status-failed", "status-default"}
        /\ statusClass = "status-success" <=> Mentions(statusArg, Success)
        /\ statusClass = "status-compromised" <=>
              (~Mentions(statusArg, Success) /\ Mentions(statusArg, Compromised))
        /\ statusClass = "status-failed" <=>
              (/\ ~Mentions(statusArg, Success)
               /\ ~Mentions(statusArg, Compromised)
               /\ Mentions(statusArg, Failed))
        /\ (statusArg.t # "string" \/ statusArg.v = <<>>) =>
              statusClass = "status-default"

\* C6's case: a status that mentions failed first and Success, in upper
\* case, after it got 'status-success'.
C6_Witness ==
    /\ statusClass = "status-success"
    /\ statusArg.t = "string"
    /\ Includes(statusArg.v, Failed)
    /\ ~Includes(statusArg.v, Success)

-----------------------------------------------------------------------------
(* Claims about the ProfilePage. *)

\* The places of the collection's documents whose Name is name.
MatchingDocs(name) ==
    {i \in DOMAIN politicians :
        "Name" \in DOMAIN politicians[i] /\ politicians[i]["Name"] = JsStr(name)}

FirstOf(S) == CHOOSE i \in S : \A j \in S : i <= j

Perms(n) == {f \in [1..n -> 1..n] : \A i, j \in 1..n : i # j => f[i] # f[j]}

\* The number a key of decimal digits denotes.
RECURSIVE KeyNumber(_)
KeyNumber(key) ==
    IF key = <<>> THEN 0
    ELSE KeyNumber(SubSeq(key, 1, Len(key) - 1)) * 10
           + (CHOOSE d \in 0..9 : <<"0","1","2","3","4","5","6","7","8","9">>[d + 1] = key[Len(key)])

\* C3: for the document found, propsList holds the values of its
\* Propositions map, one per key, in ascending order of the keys' numbers
\* (the empty list without a Propositions field), and every field of the
\* document is passed through unchanged.
C3_PropsListByNumericKey ==
    (emitCount > 0 /\ MatchingDocs(lastEmit.param) # {}) =>
        LET doc     == politicians[FirstOf(MatchingDocs(lastEmit.param))]
            entries == IF "Propositions" \in DOMAIN doc THEN doc["Propositions"] ELSE <<>>
            out     == lastEmit.value
        IN  /\ DOMAIN out = DOMAIN doc \cup {"propsList"}
            /\ \A f \in DOMAIN doc : out[f] = doc[f]
            /\ Len(out["propsList"]) = Len(entries)
            /\ \E perm \in Perms(Len(entries)) :
                  /\ \A i \in 1..Len(entries) :
                        out["propsList"][i] = entries[perm[i]].value
                  /\ \A i, j \in 1..Len(entries) :
                        i < j => KeyNumber(entries[perm[i]].key) <= KeyNumber(entries[perm[j]].key)

\* C3's case: a map to which key "10" was added first, then "9", then
\* "01" was emitted with the values in the order "01", "9", "10".
C3_Witness ==
    /\ emitCount > 0
    /\ "Propositions" \in DOMAIN politicians[1]
    /\ LET m == politicians[1]["Propositions"]
       IN  /\ Len(m) = 3
           /\ m[1].key = <<"1", "0">>
           /\ m[2].key = <<"9">>
           /\ m[3].key = <<"0", "1">>
           /\ m[1].value # m[2].value
           /\ lastEmit.value["propsList"] = <<m[3].value, m[2].value, m[1].value>>

\* C7 as claimed: the body's overflow is 'hidden' only while the profile
\* page is shown with a proposition selected.
C7_HiddenOnlyWithModal ==
    bodyOverflow = "hidden" => (url.path = "profile" /\ selectedProp # JsNull)

\* C8: for a name no document has, politician$ emits null; for a name some
\* document has, it emits a record with the fields of the first such
\* document, never null.
C8_NullIffNoMatch ==
    emitCount > 0 =>
        IF MatchingDocs(lastEmit.param) = {}
        THEN lastEmit.value = JsNull
        ELSE /\ lastEmit.value # JsNull
             /\ LET doc == politicians[FirstOf(MatchingDocs(lastEmit.param))]
                IN  \A f \in DOMAIN doc : lastEmit.value[f] = doc[f]

\* C8's cases: a null was emitted for a name without a document, and a
\* record for a name that two documents have.
C8_Witness ==
    /\ emitCount > 0
    /\ lastEmit.value # JsNull
    /\ Cardinality(MatchingDocs(lastEmit.param)) >= 2

\* C9: politician$ emits only the result of the query for the route's
\* current name (the one switchMap is subscribed to), never that of an
\* earlier query; and once no query is in flight and none has failed, the
\* last value emitted is the result of the query for the current name.
C9_OnlyLatestQuery ==
    [][ /\ (emitCount' = emitCount + 1) =>
              (lastEmit'.id = inner' /\ lastEmit'.param = url'.name)
        /\ (url'.path = "profile" /\ stream' = "live" /\ queries' = {}) =>
              /\ emitCount' > 0
              /\ lastEmit'.id = inner'
              /\ lastEmit'.param = url'.name
              /\ lastEmit'.value = EmittedFor(QueryByName(url'.name)) ]_vars

\* C9's case: the name changed while the first query was in flight, the
\* second query's result was emitted, and the first query resolved after
\* it and was dropped.
C9_Witness ==
    /\ url.path = "profile"
    /\ lastOp.op = "resolved"
    /\ lastOp.arg # JsStr(url.name)
    /\ queries = {}
    /\ navs = 2
    /\ emitCount = 1
    /\ lastEmit.param = url.name

\* C10: a call toPage(person) starts the navigation to /profile/person,
\* without a warning, if person is in validNames; otherwise it logs a
\* warning, starts no navigation and changes neither the router nor the
\* component.  Before the names have loaded every call is of the second
\* kind.
C10_ToPageOnlyValidNames ==
    [][ lastOp'.op = "toPage" =>
          /\ IF SeqIncludes(validNames, lastOp'.arg)
             THEN /\ ~warned'
                  /\ lastOp'.nav = ProfileUrl(lastOp'.arg.v)
                  /\ pending' = lastOp'.nav
             ELSE /\ warned'
                  /\ lastOp'.nav = NoNav
                  /\ UNCHANGED <<url, pending, validNames, namesQuery,
                                 selectedProp, bodyOverflow, queries, inner,
                                 stream, lastEmit, emitCount>>
          /\ namesQuery = "pending" =>
                (warned' /\ lastOp'.nav = NoNav /\ pending' = pending) ]_vars

\* C10's case: a call made before the names loaded, for a name the
\* collection holds, was rejected.
C10_Witness ==
    /\ lastOp.op = "toPage"
    /\ warned
    /\ namesQuery = "pending"
    /\ MatchingDocs(lastOp.arg.v) # {}
    /\ lastOp.arg.v # url.name

-----------------------------------------------------------------------------
(* Claims about the Homepage. *)

\* value occurs in text at offset k, letter case aside.
MatchesAt(text, value, k) ==
    \A i \in 1..Len(value) : ToLowerChar(text[k + i]) = ToLowerChar(value[i])

\* option is a non-empty string that contains value, letter case aside.
OptionMatches(option, value) ==
    /\ option.t = "string"
    /\ option.v # <<>>
    /\ \E k \in 0..(Len(option.v) - Len(value)) : MatchesAt(option.v, value, k)

MatchIdx(opts, value) == {i \in DOMAIN opts : OptionMatches(opts[i], value)}

\* The j-th smallest element of the set of numbers S.
NthOf(S, j) == CHOOSE i \in S : Cardinality({m \in S : m <= i}) = j

\* The matching options, each once, in the order of opts.
ExactMatches(opts, value) ==
    [j \in 1..Cardinality(MatchIdx(opts, value)) |->
        opts[NthOf(MatchIdx(opts, value), j)]]

\* C1: the list _filter returns for the control's value (null read as '')
\* is exactly the non-empty options that contain the value, letter case
\* aside, in the order of the options: none omitted, none added.
C1_FilterExact ==
    (url = HomeUrl /\ subscribed) =>
        filtered = ExactMatches(options, JsOr(control, JsStr(<<>>)).v)

\* C1's case: a non-empty input kept some options, one of them only
\* because case is ignored, and dropped another non-empty option.
C1_Witness ==
    /\ lastOp.op = "input"
    /\ control.v # <<>>
    /\ Len(filtered) >= 1
    /\ \E i \in DOMAIN filtered : ~Includes(filtered[i].v, control.v)
    /\ \E i \in DOMAIN options :
          Truthy(options[i]) /\ ~OptionMatches(options[i], control.v)

\* C4 as claimed: when the user has selected option X and goToPage(X) is
\* invoked next, the navigation goToPage starts is the one to /profile/X.
C4_SelectNavigatesToSelected ==
    [][(lastOp.op = "select" /\ lastOp'.op = "goToPage" /\ lastOp'.arg = lastOp.arg)
          => (lastOp'.nav = ProfileUrl(lastOp.arg.v) /\ pending' = lastOp'.nav)]_vars

\* C5 as claimed: during the life of one Homepage the options are set from
\* the collection a single time; after the first load no later event from
\* the store changes them.
C5_LoadedOnce ==
    [][(loads >= 1 /\ loads' >= 1) => options' = options]_vars

\* C11: while filteredOptions is subscribed, after every input and every
\* snapshot, topMatch is the first of the options that match the control's
\* value (null read as ''), and null exactly when none matches; and a
\* goToPage made then, while some option matches, starts a navigation only
\* to the profile of a name among the options.
C11_TopMatchIsFirstMatch ==
    [][ /\ (url' = HomeUrl /\ subscribed') =>
              LET m == ExactMatches(options', JsOr(control', JsStr(<<>>)).v)
              IN  /\ (m = <<>>) <=> (topMatch' = JsNull)
                  /\ m # <<>> => topMatch' = m[1]
        /\ (/\ subscribed
            /\ lastOp'.op = "goToPage"
            /\ lastOp'.nav # NoNav
            /\ MatchIdx(options, JsOr(control, JsStr(<<>>)).v) # {}) =>
              /\ pending' = lastOp'.nav
              /\ lastOp'.nav.path = "profile"
              /\ SeqIncludes(options, JsStr(lastOp'.nav.name)) ]_vars

\* C11's case: with a non-empty input in the box, a later snapshot changed
\* the options, and the top match is an option that is not the first one.
C11_Witness ==
    /\ url = HomeUrl
    /\ subscribed
    /\ lastOp.op = "snapshot"
    /\ loads >= 2
    /\ control.v # <<>>
    /\ topMatch # JsNull
    /\ topMatch # options[1]

=============================================================================
